---- MODULE Spec2Model ----
(***************************************************************************)
(* Model of the client-side API/session layer of LADI-frontend             *)
(* (class ApiService).  One record per asynchronous call; every `await`    *)
(* of the source is a suspension point, so each action is the code that    *)
(* runs between two awaits.  The backend and the network are the           *)
(* environment: every fetch is answered by a nondeterministic outcome, or  *)
(* is never answered.                                                      *)
(*                                                                         *)
(* Texts (server error strings, messages) are sequences of fragments; a    *)
(* fragment is a piece of text that the code searches for, or a piece      *)
(* between two such pieces.  s.includes(x) is "x is a fragment of s".      *)
(***************************************************************************)
EXTENDS Integers, Sequences, FiniteSets, TLC

\* ------------------------------------------------------------------ bounds
MaxBg == 1             \* logout() calls nobody awaits that exist at the same time
MaxTok == 2            \* distinct access tokens the backend issues
MaxRTok == 1           \* distinct refresh tokens the backend issues
MaxDepth == 1          \* nesting of request() frames waiting for refreshToken()
MaxLoads == 2          \* calls of loadEvaluationHistory() that exist at the same time
MaxVer == 2            \* mutations of the evaluation list the backend applies

\* ------------------------------------------------------- program constants
MaxAttempts == 3
JsonTimeoutMs == 30000
UploadTimeoutMs == 300000
BackoffUnitMs == 1000

User == 0              \* the call made by the caller (a page or the AuthContext)
Calls == 0..MaxBg      \* 1..MaxBg: the logout() calls started by request()
Null == 0
Tokens == 1..MaxTok
RTokens == 1..MaxRTok
ResetTok == MaxTok + 1 \* the token of a password-reset link, no access token

\* ------------------------------------------------------------------- texts
Includes(s, frag) == \E i \in 1..Len(s) : s[i] = frag

RECURSIVE ReplaceFirst(_, _)
ReplaceFirst(s, frag) ==
  IF s = <<>> THEN <<>>
  ELSE IF Head(s) = frag THEN Tail(s)
  ELSE <<Head(s)>> \o ReplaceFirst(Tail(s), frag)

NoText == <<>>
SessionExpiredMsg == <<"Session ", "expired", ". Please log in again.">>
YourSessionExpiredMsg == <<"Your session has ", "expired", ". Please log in again.">>
TimeoutMsg == <<"Request timeout - the evaluation is taking longer than expected. Please try again or contact support if the issue persists.">>
NetworkMsg == <<"Network error - please check your internet connection and try again.">>
CorsMsg == <<"Cross-origin request blocked. Please try refreshing the page.">>
OpenAiMsg == <<"OpenAI API is not configured", ". Please contact your administrator to set up the OPENAI_API_KEY environment variable.">>
UnexpectedMsg == <<"An unexpected error occurred.">>
NoRefreshTokenMsg == <<"No refresh token available">>
AfterRefreshMsg == <<"API request failed after token refresh">>
UploadFailedMsg == <<"Upload failed">>
UploadAfterRefreshMsg == <<"Upload failed after token refresh">>
GetEvaluationsMsg == <<"Failed to get evaluations">>
DownloadFailedMsg == <<"Download failed. Please try again or contact support.">>
DownloadTemplateMsg == <<"Download failed">>

\* exception texts of the runtime
FailedToFetchText == <<"Failed to fetch">>
JsonSyntaxText == <<"Unexpected token < in JSON at position 0">>
EmptyBodyText == <<"Unexpected end of JSON input">>

\* error strings of the backend used as inputs
TokenExpiredText == <<"Token has ", "expired">>
InvalidCredentialsText == <<"Invalid email or password">>
InvalidRefreshText == <<"Invalid refresh token">>
EmailRequiredText == <<"email", " is required">>
NotFoundText == <<"Evaluation not found">>
MissingHeaderText == <<"Missing Authorization Header">>
InvalidFileText == <<"Invalid file type">>

ErrorMap ==
  { << <<"User with this email already exists">>,
       <<"An account with this email already exists. Please try logging in instead.">> >>,
    << InvalidCredentialsText,
       <<"Invalid email or password. Please check your credentials and try again.">> >>,
    << <<"Account is deactivated">>,
       <<"Your account has been deactivated. Please contact support.">> >>,
    << <<"Invalid email format">>, <<"Please enter a valid email address.">> >>,
    << <<"Password must be at least 8 characters long">>,
       <<"Password must be at least 8 characters long.">> >>,
    << <<"Password must contain at least one uppercase letter">>,
       <<"Password must contain at least one uppercase letter.">> >>,
    << <<"Password must contain at least one lowercase letter">>,
       <<"Password must contain at least one lowercase letter.">> >>,
    << <<"OpenAI API is not configured">>,
       <<"AI-powered evaluation requires OpenAI API configuration. Please contact your administrator to set up the OPENAI_API_KEY environment variable.">> >>,
    << <<"Password must contain at least one number">>,
       <<"Password must contain at least one number.">> >>,
    << <<"Email and password are required">>, <<"Please enter both email and password.">> >>,
    << InvalidRefreshText, YourSessionExpiredMsg >>,
    << <<"User not found or inactive">>, <<"User account not found or inactive.">> >>,
    << <<"Session ", "expired">>, YourSessionExpiredMsg >>,
    << <<"Refresh token", " is required">>, SessionExpiredMsg >>,
    << <<"New password", " is required">>, <<"New password", " is required", ".">> >> }

FieldMap ==
  { << <<"email">>, <<"Email">> >>,
    << <<"password">>, <<"Password">> >>,
    << <<"first_name">>, <<"First name">> >>,
    << <<"last_name">>, <<"Last name">> >> }

HasKey(map, k) == \E p \in map : p[1] = k
Lookup(map, k) == (CHOOSE p \in map : p[1] = k)[2]

\* error || fallback
OrElse(error, fallback) == IF error = NoText THEN fallback ELSE error

\* getErrorMessage(error, status); status 0 stands for an omitted status
GetErrorMessage(error, status) ==
  IF Includes(error, " is required")
  THEN LET field == ReplaceFirst(error, " is required")
           fieldName == IF HasKey(FieldMap, field) THEN Lookup(FieldMap, field) ELSE field
       IN  fieldName \o <<" is required", ".">>
  ELSE IF HasKey(ErrorMap, error) THEN Lookup(ErrorMap, error)
  ELSE IF status # 0
  THEN CASE status = 400 -> OrElse(error, <<"Invalid request. Please check your input.">>)
         [] status = 401 -> OrElse(error, <<"Authentication failed. Please log in again.">>)
         [] status = 403 -> <<"Access denied. You do not have permission to perform this action.">>
         [] status = 404 -> <<"Resource not found.">>
         [] status = 409 -> OrElse(error, <<"Conflict with existing data.">>)
         [] status = 422 -> OrElse(error, <<"Validation error. Please check your input.">>)
         [] status = 429 -> <<"Too many requests. Please try again later.">>
         [] status = 500 -> <<"Server error. Please try again later or contact support.">>
         [] status \in {502, 503, 504} -> <<"Service temporarily unavailable. Please try again later.">>
         [] OTHER -> OrElse(error, UnexpectedMsg)
  ELSE OrElse(error, UnexpectedMsg)


\* ------------------------------------------------------------------- state
VARIABLES
  token,     \* ApiService.token (Null or an access token)
  storage,   \* localStorage: ladi_token (access) and ladi_refresh_token (refresh)
  calls,     \* the asynchronous calls, one record per call slot
  user,      \* AuthContext: TRUE iff the `user` state is non-null
  page,      \* the evaluation page: the categories received and the history entry added
  mapped,    \* the last non-2xx answer handled by request() and the envelope built from it
  late,      \* the logout() calls in flight that began before login() stored the tokens now held
  hist,      \* AuthContext evaluation history, its loads, and the backend's list
  alt        \* the ApiService of src/services/api.ts: its session and the call in progress

vars == <<token, storage, calls, user, page, mapped, late, hist, alt>>

NoAuth == [present |-> FALSE, cred |-> Null]

\* mutant: the header is attached without the null check of line 176
AuthHeaderNoGuard(tok) == [present |-> TRUE, cred |-> tok]

\* headers['Authorization'] as built for the first send of a request
AuthHeader(tok) == IF tok # Null THEN [present |-> TRUE, cred |-> tok] ELSE NoAuth

\* `Bearer ${this.token}` as built for the replay (cred Null is the text "null")
ReplayHeader(tok) == [present |-> TRUE, cred |-> tok]

NoEnv == [success |-> FALSE, error |-> NoText, acc |-> Null, rtk |-> Null]
Success(body) == [success |-> TRUE, error |-> NoText, acc |-> body.acc, rtk |-> body.rtk]
Failure(msg) == [success |-> FALSE, error |-> msg, acc |-> Null, rtk |-> Null]

\* operations that are `return this.request(...)` and nothing else;
\* "loadUserProfile" is getUserProfile() called by AuthContext.loadUserProfile
PlainOps == {"getUserProfile", "deleteEvaluation", "bulkDeleteEvaluations",
             "loadUserProfile", "uploadAndEvaluateWithMethods"}
\* operations whose own code runs after `await this.request(...)`
WrappedOps == {"login", "signup", "logout", "bgLogout", "getEvaluations",
               "downloadTemplate", "downloadEvaluationPdf"}
\* operations that call fetch themselves
UploadOps == {"uploadAndEvaluate"}
\* operations that pass a FormData body to request()
FormDataOps == {"uploadAndEvaluateWithMethods"}
BlobOps == {"downloadEvaluationPdf", "publicEvaluationRedirect"}
\* operations that swap this.token for the reset token around request()
ResetOps == {"verifyResetToken", "resetPassword"}
RequestOps == PlainOps \cup WrappedOps \cup ResetOps
\* operations declared Promise<ApiResponse<...>>
EnvelopeOps == PlainOps \cup UploadOps \cup {"login", "signup", "getEvaluations"}
\* operations declared Promise<void> that trigger a download
DownloadOps == BlobOps \cup {"downloadTemplate"}

\* the other ApiService before construction, no call in progress: the
\* operation called on both variants, the envelope request() returns for it,
\* and which of the two calls has returned
NoVariantCall ==
  [op |-> "none", env |-> NoEnv, answered |-> FALSE, here |-> FALSE, there |-> FALSE,
   token |-> Null, access |-> Null, refresh |-> Null]

\* no non-2xx answer handled yet
NoMapping == [done |-> FALSE, status |-> 0, error |-> NoText, out |-> NoEnv]

\* no answer yet; status 0 with a text stands for an exception of fetch or of
\* response.json()
NoResp == [status |-> 0, error |-> NoText]

IdleCall ==
  [op |-> "none", pc |-> "idle", depth |-> 0,
   hdr |-> NoAuth, sentTok |-> Null, timer |-> 0,
   env |-> NoEnv, threw |-> FALSE,
   nsent |-> 0, total |-> 0, ref |-> "none", issued |-> Null, src |-> "none",
   reqErr |-> NoText, attempt |-> 0, oks |-> 0, waited |-> 0, lastError |-> NoText,
   resp |-> NoResp, primary |-> "none", signed |-> "none",
   nref |-> 0, nlogout |-> 0, orig |-> Null]

\* isAuthenticated()
IsAuthenticated == token # Null \/ storage.access # Null

\* the endpoint of the innermost request of a call
Endpoint(call) ==
  IF call.depth > 0 THEN "/auth/refresh"
  ELSE CASE call.op = "login" -> "/auth/login"
         [] call.op = "signup" -> "/auth/register"
         [] call.op \in {"logout", "bgLogout"} -> "/auth/logout"
         [] OTHER -> call.op

\* true iff the fetch in flight was issued by request() (not by an upload or
\* download method calling fetch itself)
IssuedByRequest(call) == call.depth > 0 \/ call.op \in RequestOps

\* ------------------------------------------------------------ environment
\* bodies of 2xx answers, by endpoint
OkBodies(ep) ==
  IF ep \in {"/auth/login", "/auth/register"}
  THEN [acc : Tokens, rtk : RTokens \cup {Null}]
  ELSE IF ep = "/auth/refresh" THEN [acc : Tokens, rtk : {Null}]
  ELSE {[acc |-> Null, rtk |-> Null]}

\* non-2xx answers: status and the body's error string (one with the expiry
\* marker, one with a text of the lookup table, one without text)
ErrorResponses ==
  { [status |-> 401, error |-> TokenExpiredText],
    [status |-> 401, error |-> InvalidCredentialsText],
    [status |-> 500, error |-> NoText] }

\* mutant: every 401 counts as an expired token
IsExpiryAny401(r) == r.status = 401

\* line 198
IsExpiry(r) == r.status = 401 /\ Includes(r.error, "expired")

\* the /auth/refresh and /auth/logout requests of one call are counted as
\* none, one, or more than one
Counted(n) == IF n >= 2 THEN 2 ELSE n + 1

\* the requests a call has sent for its own endpoint are counted as none,
\* one, two, or more than two
Sent(n) == IF n >= 3 THEN 3 ELSE n + 1

\* ---------------------------------------------------------------- request()
\* lines 166-191: build the headers, arm the abort timer, call fetch
SendRequest(call, tok, ms) ==
  [call EXCEPT !.pc = "fetch", !.hdr = AuthHeader(tok), !.sentTok = tok,
               !.timer = ms]

\* a new invocation of request() (or of an upload method) by an operation
NewRequest(call, tok, ms) ==
  [SendRequest(call, tok, ms) EXCEPT !.nsent = 1, !.total = Sent(@), !.ref = "none",
                                     !.issued = Null, !.src = "none", !.resp = NoResp]

\* lines 236-267: the catch block of request()
CatchEnvelope(name, msg) ==
  IF name = "AbortError" THEN Failure(TimeoutMsg)
  ELSE IF Includes(msg, "Failed to fetch") \/ Includes(msg, "NetworkError")
  THEN Failure(NetworkMsg)
  ELSE IF Includes(msg, "CORS") THEN Failure(CorsMsg)
  ELSE Failure(GetErrorMessage(msg, 0))

\* lines 433-439: the catch block of uploadAndEvaluate
UploadCatchEnvelope(msg) == Failure(msg)

\* the envelope a failed fetch or a thrown Error becomes, by the method that
\* owns the frame
Caught(call, name, msg) ==
  IF IssuedByRequest(call) THEN CatchEnvelope(name, msg) ELSE UploadCatchEnvelope(msg)

\* mutant: the server's error string is thrown as it is
ErrorThrownRaw(call, r) == r.error

\* lines 224-232: the Error thrown for a non-2xx answer that is not an expiry
ErrorThrown(call, r) ==
  IF IssuedByRequest(call)
  THEN LET errorMessage == GetErrorMessage(r.error, r.status)
       IN  IF Includes(errorMessage, "OpenAI API is not configured")
           THEN OpenAiMsg ELSE errorMessage
  ELSE OrElse(r.error, UploadFailedMsg)

\* lines 213-215 / 419-421: the Error thrown for a non-2xx answer to the replay
ReplayErrorThrown(call, r) ==
  OrElse(r.error, IF IssuedByRequest(call) THEN AfterRefreshMsg ELSE UploadAfterRefreshMsg)

\* the answer r to the first fetch of an operation's own request is recorded
Answered(call, r) == [call EXCEPT !.resp = IF call.depth = 0 THEN r ELSE @]

\* the innermost request() returns envelope e: a plain operation returns it to
\* its caller, any other frame is awaited by a wrapper or by refreshToken()
Return(call, e, from) ==
  [call EXCEPT !.pc = IF call.depth = 0 /\ call.op \in PlainOps \cup UploadOps
                      THEN "done" ELSE "reqDone",
               !.env = e, !.timer = 0, !.hdr = NoAuth, !.sentTok = Null,
               !.src = IF call.depth = 0 THEN from ELSE @,
               !.reqErr = IF call.depth = 0 THEN e.error ELSE @,
               !.oks = IF call.depth = 0 /\ e.success THEN @ + 1 ELSE @]


\* ------------------------------------------------------ evaluation page
\* the ids of defaultEvaluations, the six fixed categories
CategoryIds == {"line-editing", "plot", "character", "flow", "worldbuilding", "readiness"}
\* a key of results.categories that is none of the six
OtherId == "other"
\* categories[id] is undefined
Absent == -1
ScoreValues == {0, 50, 85}
\* results.categories as the backend may return it
CategoryResults == [CategoryIds \cup {OtherId} -> ScoreValues \cup {Absent}]

RECURSIVE SumOver(_, _)
SumOver(f, S) ==
  IF S = {} THEN 0
  ELSE LET k == CHOOSE x \in S : TRUE IN f[k] + SumOver(f, S \ {k})

\* Math.round(a / b) for a >= 0 and b > 0
RoundDiv(a, b) == (2 * a + b) \div (2 * b)

\* Object.values(categories)
Returned(categories) == {k \in DOMAIN categories : categories[k] # Absent}

\* Dashboard.tsx lines 308-309: the rounded mean of the scores returned
OverallScore(categories) ==
  IF Returned(categories) # {}
  THEN RoundDiv(SumOver(categories, Returned(categories)), Cardinality(Returned(categories)))
  ELSE 0

\* lines 291-299: the score shown for a fixed category, 0 when it is missing
ShownScore(categories, id) == IF categories[id] = Absent THEN 0 ELSE categories[id]

NoPage == [added |-> FALSE, overallScore |-> 0,
           evaluations |-> [id \in CategoryIds |-> 0]]

\* the history entry that processFile / handleEvaluationComplete add
HistoryEntry(categories) ==
  [added |-> TRUE, overallScore |-> OverallScore(categories),
   evaluations |-> [id \in CategoryIds |-> ShownScore(categories, id)]]

\* ------------------------------------------------- evaluation history
Loads == 1..MaxLoads
\* the empty list: useState([]) and setEvaluationHistory([])
NoList == -1

\* a call of loadEvaluationHistory(): "clear" awaits clearOldDownloadUrls(),
\* "get" awaits getEvaluations(), "served" when the backend has read the list
\* (snap, the number of mutations it had applied) and the answer is under way
IdleLoad == [pc |-> "idle", snap |-> NoList]

NoHistory ==
  [flag |-> FALSE,                       \* loadingHistoryRef.current
   load |-> [l \in Loads |-> IdleLoad],
   last |-> "none",                      \* what the last call of loadEvaluationHistory() did
   mut |-> "idle",                       \* the delete / update request of the History page
   version |-> 0,                        \* mutations the backend has applied
   seen |-> 0,                           \* mutations the page has seen succeed
   shown |-> NoList]                     \* evaluationHistory: the snapshot it holds

\* mutant: the in-progress flag is not consulted
InProgressNever == FALSE

\* part_009 line 146
InProgress == hist.flag

\* part_009 lines 143-152: the code of loadEvaluationHistory() up to its
\* first await, as call l
HistoryAfterCall(l) ==
  IF ~user THEN hist
  ELSE IF InProgress THEN [hist EXCEPT !.last = "skipped"]
  ELSE [hist EXCEPT !.flag = TRUE, !.load[l].pc = "clear", !.last = "started"]

\* ------------------------------------------------------------- operations
\* the history fields (nsent .. lastError) record what the caller's call did;
\* a logout() nobody awaits has no caller, its result is dropped; the answer
\* to its request does not depend on the header it was sent with, and the
\* result of a refresh is used up when its continuation has run
Lean(call) ==
  [call EXCEPT !.env = IF call.pc \in {"fetch", "replay"}
                          \/ (call.pc = "reqDone" /\ call.depth = 0) THEN NoEnv
                       ELSE [@ EXCEPT !.error = NoText],
               !.hdr = NoAuth, !.sentTok = Null,
               !.nsent = 0, !.total = 0, !.ref = "none", !.issued = Null,
               !.src = "none", !.reqErr = NoText, !.oks = 0, !.resp = NoResp,
               !.nref = 0, !.nlogout = 0]

Put(c, call) == [calls EXCEPT ![c] = IF c = User THEN call ELSE Lean(call)]

\* a continuation is ready to run: the promise it awaits is settled.  The
\* runtime runs ready continuations (microtasks) before it delivers the next
\* event (a network answer, a timer, a user action)
Ready(c) == calls[c].pc \in {"reqDone", "refDone", "done"}
Quiet == \A c \in Calls : ~Ready(c)

\* the slots free for the logout() calls that a failure in call c will start:
\* every request() frame waiting for a refresh that fails calls logout()
FreeSlots(c) == Cardinality({d \in Calls \ {User, c} : calls[d].pc = "idle"})

\* the un-awaited logout() calls of f that have not returned
Pending(f) == {d \in Calls \ {User} : f[d].pc # "idle"}

\* the un-awaited calls carry no identity in the code: the ones still running
\* are kept in the lowest slots, in the order they were started
Compact(f) ==
  [d \in Calls |->
     IF d = User THEN f[d]
     ELSE LET at == {e \in Pending(f) : Cardinality({x \in Pending(f) : x <= e}) = d}
          IN  IF at = {} THEN IdleCall ELSE f[CHOOSE e \in at : TRUE]]

Init ==
  /\ storage \in {[access |-> Null, refresh |-> Null]}
                 \cup [access : Tokens, refresh : RTokens]
  /\ token = storage.access                \* constructor, lines 85-89
  /\ calls = [c \in Calls |-> IdleCall]
  /\ user = FALSE                          \* useState<User | null>(null)
  /\ page = NoPage
  /\ mapped = NoMapping
  /\ late = {}
  /\ hist = NoHistory
  /\ alt = NoVariantCall

\* line 184: the timeout request() arms for the request of an operation
TimeoutMs(op) == IF op \in FormDataOps THEN UploadTimeoutMs ELSE JsonTimeoutMs

\* the caller invokes an operation built on request(); the code up to the
\* first await runs: headers, timer, fetch.  apiService.logout() is called by
\* AuthContext.logout (part_009 lines 136-140), after setUser(null)
StartRequestOp(op) ==
  /\ Quiet
  /\ calls[User].pc = "idle"
  /\ op = "loadUserProfile" => (storage.access # Null /\ IsAuthenticated)   \* part_009 lines 61-62
  /\ calls' = Put(User, NewRequest([IdleCall EXCEPT !.op = op, !.attempt = 1,
                                                     !.nlogout = IF op = "logout" THEN 1 ELSE 0],
                                   token, TimeoutMs(op)))
  /\ user' = IF op = "logout" THEN FALSE ELSE user
  /\ UNCHANGED <<token, storage, page, mapped, late, hist, alt>>

\* uploadAndEvaluate, lines 382-398: fetch without signal and without timer
StartUpload ==
  /\ Quiet
  /\ calls[User].pc = "idle"
  /\ calls' = Put(User, NewRequest([IdleCall EXCEPT !.op = "uploadAndEvaluate"], token, 0))
  /\ UNCHANGED <<token, storage, user, page, mapped, late, hist, alt>>

\* the exception text of a failed fetch or body read
ExceptionText(x) ==
  IF x = "TypeError" THEN FailedToFetchText
  ELSE IF x = "SyntaxError" THEN JsonSyntaxText
  ELSE <<"The user aborted a request.">>

\* the answer to the first fetch of the innermost frame arrives and
\* response.json() is read
FetchOk(c) ==
  /\ Quiet
  /\ calls[c].pc = "fetch"
  /\ \E body \in OkBodies(Endpoint(calls[c])) :
       calls' = Put(c, Return(Answered(calls[c], [status |-> 200, error |-> NoText]),
                              Success(body), "first"))
  /\ UNCHANGED <<token, storage, user, page, mapped, late, hist, alt>>

FetchError(c) ==
  /\ Quiet
  /\ FreeSlots(c) >= calls[c].depth
  /\ calls[c].pc = "fetch"
  /\ \E r \in ErrorResponses :
       /\ ~IsExpiry(r)
       /\ calls' = Put(c, Return(Answered(calls[c], r),
                                 Caught(calls[c], "Error", ErrorThrown(calls[c], r)),
                                 "first"))
  /\ UNCHANGED <<token, storage, user, page, mapped, late, hist, alt>>

\* fetch rejects (network failure), the abort timer fires, or the body is not JSON
FetchFails(c) ==
  /\ Quiet
  /\ FreeSlots(c) >= calls[c].depth
  /\ calls[c].pc = "fetch"
  /\ \E x \in {"TypeError", "AbortError", "SyntaxError"} :
       /\ x = "AbortError" => calls[c].timer > 0
       /\ calls' = Put(c, Return(Answered(calls[c], [status |-> 0, error |-> ExceptionText(x)]),
                                 Caught(calls[c], x, ExceptionText(x)), "first"))
  /\ UNCHANGED <<token, storage, user, page, mapped, late, hist, alt>>

\* mutant: a call answered 401 'expired' while another call's refresh is in
\* flight sends no /auth/refresh of its own and goes on to its replay
FetchExpiredDeduplicated(c) ==
  /\ Quiet
  /\ calls[c].pc = "fetch"
  /\ \E r \in ErrorResponses :
       /\ IsExpiry(r)
       /\ IF \E d \in Calls \ {c} : calls[d].pc = "fetch" /\ calls[d].depth > 0
          THEN calls' = Put(c, [Answered(calls[c], r) EXCEPT
                                  !.pc = "refDone", !.timer = 0,
                                  !.hdr = NoAuth, !.sentTok = Null,
                                  !.env = Success([acc |-> Null, rtk |-> Null])])
          ELSE IF storage.refresh = Null
          THEN /\ FreeSlots(c) >= calls[c].depth + 1
               /\ calls' = Put(c, [Answered(calls[c], r) EXCEPT !.pc = "refDone", !.timer = 0,
                                                   !.hdr = NoAuth, !.sentTok = Null,
                                                   !.env = Failure(NoRefreshTokenMsg)])
          ELSE /\ calls[c].depth < MaxDepth
               /\ calls' = Put(c, SendRequest([Answered(calls[c], r) EXCEPT !.depth = @ + 1,
                                                                            !.nref = Counted(@)],
                                              token, JsonTimeoutMs))
  /\ UNCHANGED <<token, storage, user, page, mapped, late, hist, alt>>

\* lines 196-200 and 321-330: a 401 whose error text contains 'expired';
\* clearTimeout has run (line 193); refreshToken() runs up to its first await
FetchExpired(c) ==
  /\ Quiet
  /\ calls[c].pc = "fetch"
  /\ \E r \in ErrorResponses :
       /\ IsExpiry(r)
       /\ IF storage.refresh = Null
          THEN /\ FreeSlots(c) >= calls[c].depth + 1
               /\ calls' = Put(c, [Answered(calls[c], r) EXCEPT !.pc = "refDone", !.timer = 0,
                                                   !.hdr = NoAuth, !.sentTok = Null,
                                                   !.env = Failure(NoRefreshTokenMsg)])
          ELSE /\ calls[c].depth < MaxDepth
               /\ calls' = Put(c, SendRequest([Answered(calls[c], r) EXCEPT !.depth = @ + 1,
                                                                            !.nref = Counted(@)],
                                              token, JsonTimeoutMs))
  /\ UNCHANGED <<token, storage, user, page, mapped, late, hist, alt>>

\* mutant: the new access token is stored but this.token keeps the old one
SessionAfterRefreshStorageOnly(e) ==
  IF e.success
  THEN [token |-> token, access |-> e.acc, refresh |-> storage.refresh]
  ELSE [token |-> token, access |-> storage.access, refresh |-> storage.refresh]

\* mutant: a successful refresh drops the stored refresh token
SessionAfterRefreshDropsRefresh(e) ==
  IF e.success
  THEN [token |-> e.acc, access |-> e.acc, refresh |-> Null]
  ELSE [token |-> token, access |-> storage.access, refresh |-> storage.refresh]

\* the session after refreshToken() has handled envelope e, lines 332-335
SessionAfterRefresh(e) ==
  IF e.success
  THEN [token |-> e.acc, access |-> e.acc, refresh |-> storage.refresh]
  ELSE [token |-> token, access |-> storage.access, refresh |-> storage.refresh]

SetSession(s) ==
  /\ token' = s.token
  /\ storage' = [access |-> s.access, refresh |-> s.refresh]

\* lines 332-337: refreshToken() resumes with the envelope of its request
RefreshTokenResume(c) ==
  /\ calls[c].pc = "reqDone"
  /\ calls[c].depth > 0
  /\ SetSession(SessionAfterRefresh(calls[c].env))
  /\ calls' = Put(c, [calls[c] EXCEPT
       !.pc = "refDone", !.depth = @ - 1,
       !.issued = IF calls[c].depth = 1 /\ calls[c].env.success THEN calls[c].env.acc ELSE @])
  /\ UNCHANGED <<user, page, mapped, late, hist, alt>>

\* the timer that covers the replay: the one armed for the first fetch was
\* cleared at line 193 and no other is armed (uploads never arm one)
ReplayTimer(call) == 0

\* lines 201-210: the refresh succeeded; the frame replays its request
Replay(c) ==
  /\ calls[c].pc = "refDone"
  /\ calls[c].env.success
  /\ calls' = Put(c, [calls[c] EXCEPT
       !.pc = "replay", !.hdr = ReplayHeader(token), !.sentTok = token,
       !.timer = ReplayTimer(calls[c]),
       !.nsent = IF calls[c].depth = 0 THEN @ + 1 ELSE @,
       !.total = IF calls[c].depth = 0 THEN Sent(@) ELSE @,
       !.ref = IF calls[c].depth = 0 THEN "ok" ELSE @])
  /\ UNCHANGED <<token, storage, user, page, mapped, late, hist, alt>>

\* lines 217-221: the refresh failed; logout() is called without await (it
\* runs up to the fetch of /auth/logout in a call of its own), then the
\* session-expired Error is thrown and caught
ForceLogout(c) ==
  /\ calls[c].pc = "refDone"
  /\ ~calls[c].env.success
  /\ \E d \in Calls \ {User, c} :
       /\ calls[d].pc = "idle"
       /\ \A d2 \in Calls \ {User, c} : calls[d2].pc = "idle" => d <= d2
       /\ calls' = [Put(c, Return([calls[c] EXCEPT
                                     !.ref = IF calls[c].depth = 0 THEN "failed" ELSE @,
                                     !.nlogout = Counted(@)],
                                  Caught(calls[c], "Error", SessionExpiredMsg), "refresh"))
                    EXCEPT ![d] = Lean(NewRequest([IdleCall EXCEPT !.op = "bgLogout"],
                                                  token, JsonTimeoutMs))]
  /\ UNCHANGED <<token, storage, user, page, mapped, late, hist, alt>>

\* mutant: a replay that fails is sent again
ReplayFailsResends(c) ==
  /\ Quiet
  /\ calls[c].pc = "replay"
  /\ calls' = Put(c, [calls[c] EXCEPT !.nsent = @ + 1, !.total = Sent(@)])
  /\ UNCHANGED <<token, storage, user, page, mapped, late, hist, alt>>

\* the answer to the replay arrives
ReplayOk(c) ==
  /\ Quiet
  /\ calls[c].pc = "replay"
  /\ \E body \in OkBodies(Endpoint(calls[c])) :
       calls' = Put(c, Return(calls[c], Success(body), "replay"))
  /\ UNCHANGED <<token, storage, user, page, mapped, late, hist, alt>>

ReplayFails(c) ==
  /\ Quiet
  /\ FreeSlots(c) >= calls[c].depth
  /\ calls[c].pc = "replay"
  /\ \/ \E r \in ErrorResponses :
          calls' = Put(c, Return(calls[c],
                                 Caught(calls[c], "Error", ReplayErrorThrown(calls[c], r)),
                                 "replay"))
     \/ \E x \in {"TypeError", "AbortError", "SyntaxError"} :
          /\ x = "AbortError" => calls[c].timer > 0
          /\ calls' = Put(c, Return(calls[c], Caught(calls[c], x, ExceptionText(x)), "replay"))
  /\ UNCHANGED <<token, storage, user, page, mapped, late, hist, alt>>

\* ---------------------------------------------------------------- wrappers
\* mutant: the refresh token of the response is not stored
SessionAfterLoginNoRefresh(e) ==
  IF e.success
  THEN [token |-> e.acc, access |-> e.acc, refresh |-> storage.refresh]
  ELSE [token |-> token, access |-> storage.access, refresh |-> storage.refresh]

\* the session after login()/signup() has handled envelope e, lines 277-285
SessionAfterLogin(e) ==
  IF e.success
  THEN [token |-> e.acc, access |-> e.acc,
        refresh |-> IF e.rtk # Null THEN e.rtk ELSE storage.refresh]
  ELSE [token |-> token, access |-> storage.access, refresh |-> storage.refresh]

\* mutant: the tokens are cleared in the try block, after a successful request only
SessionAfterLogoutOnSuccess(e) ==
  IF e.success
  THEN [token |-> Null, access |-> Null, refresh |-> Null]
  ELSE [token |-> token, access |-> storage.access, refresh |-> storage.refresh]

\* the session after the finally block of logout(), lines 314-318
SessionAfterLogout(e) == [token |-> Null, access |-> Null, refresh |-> Null]

\* lines 277-287 and 296-306
LoginResume ==
  /\ calls[User].pc = "reqDone"
  /\ calls[User].depth = 0
  /\ calls[User].op \in {"login", "signup"}
  /\ SetSession(SessionAfterLogin(calls[User].env))
  /\ calls' = Put(User, [calls[User] EXCEPT !.pc = "done"])
  /\ UNCHANGED <<user, page, mapped, late, hist, alt>>

\* lines 312-318; a logout() nobody awaits ends here
LogoutResume(c) ==
  /\ calls[c].pc = "reqDone"
  /\ calls[c].depth = 0
  /\ calls[c].op \in {"logout", "bgLogout"}
  /\ SetSession(SessionAfterLogout(calls[c].env))
  /\ calls' = Compact(Put(c, IF c = User THEN [calls[c] EXCEPT !.pc = "done"] ELSE IdleCall))
  /\ late' = {}
  /\ UNCHANGED <<user, page, mapped, hist, alt>>

\* verifyResetToken / resetPassword, lines 350-354 and 366-373: originalToken
\* is saved, this.token becomes the reset token, request() runs up to fetch
StartReset(op) ==
  /\ Quiet
  /\ calls[User].pc = "idle"
  /\ token' = ResetTok
  /\ calls' = Put(User, NewRequest([IdleCall EXCEPT !.op = op, !.attempt = 1, !.orig = token],
                                   ResetTok, JsonTimeoutMs))
  /\ UNCHANGED <<storage, user, page, mapped, late, hist, alt>>

\* lines 357-361 and 374-378: the finally block restores originalToken
ResetResume ==
  /\ calls[User].pc = "reqDone"
  /\ calls[User].depth = 0
  /\ calls[User].op \in ResetOps
  /\ token' = calls[User].orig
  /\ calls' = Put(User, [calls[User] EXCEPT !.pc = "done"])
  /\ UNCHANGED <<storage, user, page, mapped, late, hist, alt>>

\* the time getEvaluations() waits before its next attempt, lines 519-527:
\* the wait is in the catch block, which runs only when request() throws
BackoffMs(call, requestThrew) ==
  IF requestThrew /\ call.attempt < MaxAttempts THEN BackoffUnitMs * call.attempt ELSE 0

\* mutant: the error of the first failed attempt is kept
GetEvaluationsResumeFirstError ==
  /\ calls[User].pc = "reqDone"
  /\ calls[User].depth = 0
  /\ calls[User].op = "getEvaluations"
  /\ LET call == calls[User]
         lastError == OrElse(call.lastError, OrElse(call.env.error, GetEvaluationsMsg))
     IN  calls' = Put(User,
           IF call.env.success
           THEN [call EXCEPT !.pc = "done"]
           ELSE IF call.attempt < MaxAttempts
           THEN NewRequest([call EXCEPT !.attempt = @ + 1, !.lastError = lastError],
                           token, JsonTimeoutMs)
           ELSE [call EXCEPT !.pc = "done", !.lastError = lastError,
                             !.env = Failure(lastError)])
  /\ UNCHANGED <<token, storage, user, page, mapped, late, hist, alt>>

\* mutant: after the last failed attempt the error is thrown
GetEvaluationsResumeThrows ==
  /\ calls[User].pc = "reqDone"
  /\ calls[User].depth = 0
  /\ calls[User].op = "getEvaluations"
  /\ LET call == calls[User]
         lastError == OrElse(call.env.error, GetEvaluationsMsg)
     IN  calls' = Put(User,
           IF call.env.success
           THEN [call EXCEPT !.pc = "done"]
           ELSE IF call.attempt < MaxAttempts
           THEN NewRequest([call EXCEPT !.attempt = @ + 1, !.lastError = lastError],
                           token, JsonTimeoutMs)
           ELSE [call EXCEPT !.pc = "done", !.lastError = lastError, !.threw = TRUE,
                             !.env = Failure(lastError)])
  /\ UNCHANGED <<token, storage, user, page, mapped, late, hist, alt>>

\* lines 512-533: one turn of the retry loop of getEvaluations()
GetEvaluationsResume ==
  /\ calls[User].pc = "reqDone"
  /\ calls[User].depth = 0
  /\ calls[User].op = "getEvaluations"
  /\ LET call == calls[User]
         lastError == OrElse(call.env.error, GetEvaluationsMsg)
     IN  calls' = Put(User,
           IF call.env.success
           THEN [call EXCEPT !.pc = "done"]
           ELSE IF call.attempt < MaxAttempts
           THEN NewRequest([call EXCEPT !.attempt = @ + 1, !.lastError = lastError,
                                        !.waited = @ + BackoffMs(call, call.threw)],
                           token, JsonTimeoutMs)
           ELSE [call EXCEPT !.pc = "done", !.lastError = lastError,
                             !.env = Failure(OrElse(lastError,
                                       <<"Failed to get evaluations after 3 attempts">>))])
  /\ UNCHANGED <<token, storage, user, page, mapped, late, hist, alt>>

\* lines 825-839
DownloadTemplateResume ==
  /\ calls[User].pc = "reqDone"
  /\ calls[User].depth = 0
  /\ calls[User].op = "downloadTemplate"
  /\ calls' = Put(User,
       IF calls[User].env.success
       THEN [calls[User] EXCEPT !.pc = "done"]
       ELSE [calls[User] EXCEPT !.pc = "done", !.threw = TRUE,
                                !.env = Failure(OrElse(calls[User].env.error,
                                                       DownloadTemplateMsg))])
  /\ UNCHANGED <<token, storage, user, page, mapped, late, hist, alt>>

\* lines 560-572 and 604-616: fetch of the PDF, without credentials or timer
StartBlob(op) ==
  /\ Quiet
  /\ calls[User].pc = "idle"
  /\ calls' = Put(User, [IdleCall EXCEPT !.op = op, !.pc = "blob"])
  /\ UNCHANGED <<token, storage, user, page, mapped, late, hist, alt>>

\* lines 574-596 and 618-640: the PDF arrived with a 2xx status and is saved
BlobOk ==
  /\ Quiet
  /\ calls[User].pc = "blob"
  /\ calls' = Put(User, [calls[User] EXCEPT !.pc = "done", !.primary = "ok"])
  /\ UNCHANGED <<token, storage, user, page, mapped, late, hist, alt>>

\* the primary path fails (a non-2xx status, a rejected fetch, an unreadable
\* body).  Lines 598-601: publicEvaluationRedirect rethrows; lines 642-648:
\* downloadEvaluationPdf asks for a signed URL through request()
BlobFails ==
  /\ Quiet
  /\ calls[User].pc = "blob"
  /\ calls' = Put(User,
       IF calls[User].op = "publicEvaluationRedirect"
       THEN [calls[User] EXCEPT !.pc = "done", !.threw = TRUE, !.primary = "failed",
                                !.env = Failure(DownloadFailedMsg)]
       ELSE NewRequest([calls[User] EXCEPT !.primary = "failed"], token, JsonTimeoutMs))
  /\ UNCHANGED <<token, storage, user, page, mapped, late, hist, alt>>

\* lines 650-655: without a success envelope that carries download_url the
\* fallback throws, otherwise it fetches the signed URL
FallbackResume ==
  /\ calls[User].pc = "reqDone"
  /\ calls[User].depth = 0
  /\ calls[User].op = "downloadEvaluationPdf"
  /\ \E hasUrl \in BOOLEAN :
       calls' = Put(User,
         IF calls[User].env.success /\ hasUrl
         THEN [calls[User] EXCEPT !.pc = "blob2"]
         ELSE [calls[User] EXCEPT !.pc = "done", !.threw = TRUE,
                                  !.env = Failure(DownloadFailedMsg)])
  /\ UNCHANGED <<token, storage, user, page, mapped, late, hist, alt>>

\* lines 655-676: the answer of the signed URL is saved as the PDF whatever
\* its status ("status": a non-2xx answer); a rejected fetch is rethrown as
\* the download failure
Blob2Done ==
  /\ Quiet
  /\ calls[User].pc = "blob2"
  /\ \E outcome \in {"ok", "status", "rejected"} :
       calls' = Put(User,
         IF outcome = "rejected"
         THEN [calls[User] EXCEPT !.pc = "done", !.threw = TRUE, !.signed = outcome,
                                  !.env = Failure(DownloadFailedMsg)]
         ELSE [calls[User] EXCEPT !.pc = "done", !.signed = outcome])
  /\ UNCHANGED <<token, storage, user, page, mapped, late, hist, alt>>

\* the user state after the caller's continuation has handled envelope e:
\* AuthContext.login / signup set the user after a success (part_009 lines
\* 90-92, 120-122); a page that called the operation leaves it alone
UserAfter(op, e) == IF op \in {"login", "signup"} /\ e.success THEN TRUE ELSE user

\* the caller has taken the result; it may make its next call
Collect ==
  /\ calls[User].pc = "done"
  /\ calls' = Put(User, IdleCall)
  /\ UNCHANGED <<token, storage, user, page, mapped, late, hist, alt>>

\* the caller is the AuthContext (login, signup) or a page: its continuation
\* runs with the result
AuthCollect ==
  /\ calls[User].pc = "done"
  /\ calls[User].op # "loadUserProfile"
  /\ calls' = Put(User, IdleCall)
  /\ user' = UserAfter(calls[User].op, calls[User].env)
  /\ late' = IF calls[User].op \in {"login", "signup"} /\ calls[User].env.success
             THEN {d \in Calls \ {User} : calls[d].pc # "idle"}
             ELSE late
  /\ UNCHANGED <<token, storage, page, mapped, hist, alt>>

\* AuthContext.loadUserProfile (part_009 lines 68-83) sets the user after a
\* success and calls logout() when the error text contains 'expired'
CollectProfile ==
  /\ calls[User].pc = "done"
  /\ calls[User].op = "loadUserProfile"
  /\ IF calls[User].env.success
     THEN /\ user' = TRUE
          /\ calls' = Put(User, IdleCall)
     ELSE IF Includes(calls[User].env.error, "expired")
     THEN /\ user' = FALSE
          /\ calls' = Put(User, NewRequest([IdleCall EXCEPT !.op = "logout", !.attempt = 1,
                                                            !.nlogout = 1],
                                           token, JsonTimeoutMs))
     ELSE /\ user' = user
          /\ calls' = Put(User, IdleCall)
  /\ UNCHANGED <<token, storage, page, mapped, late, hist, alt>>

\* lines 187-194 and 236-267: the answer has status 204 and no body;
\* response.json() throws a SyntaxError, which the catch block handles
FetchOkNoJson(c) ==
  /\ Quiet
  /\ FreeSlots(c) >= calls[c].depth
  /\ calls[c].pc = "fetch"
  /\ calls' = Put(c, Return(Answered(calls[c], [status |-> 204, error |-> NoText]),
                            Caught(calls[c], "SyntaxError", EmptyBodyText), "first"))
  /\ UNCHANGED <<token, storage, user, page, mapped, late, hist, alt>>

\* localStorage is shared by the tabs of the browser: the ApiService of
\* another tab runs the finally block of its logout(), lines 316-317
OtherTabLogout ==
  /\ Quiet
  /\ storage # [access |-> Null, refresh |-> Null]
  /\ storage' = [access |-> Null, refresh |-> Null]
  /\ UNCHANGED <<token, calls, user, page, mapped, late, hist, alt>>

\* ------------------------------------------------------- specifications
RequestSteps ==
  \E c \in Calls :
    \/ FetchOk(c) \/ FetchError(c) \/ FetchFails(c) \/ FetchExpired(c)
    \/ RefreshTokenResume(c) \/ Replay(c) \/ ForceLogout(c)
    \/ ReplayOk(c) \/ ReplayFails(c) \/ LogoutResume(c)

\* the operations built on request() that the caller invokes
CallerOps == {"login", "signup", "logout", "getUserProfile", "getEvaluations",
              "deleteEvaluation", "bulkDeleteEvaluations", "downloadTemplate"}

\* the steps of the API client
ApiSteps ==
  \/ StartUpload
  \/ \E op \in BlobOps : StartBlob(op)
  \/ BlobOk \/ BlobFails \/ FallbackResume \/ Blob2Done
  \/ RequestSteps
  \/ LoginResume
  \/ GetEvaluationsResume
  \/ DownloadTemplateResume

\* the API client alone, with callers that do nothing but call
Next ==
  \/ \E op \in CallerOps : StartRequestOp(op)
  \/ ApiSteps
  \/ Collect

Spec == Init /\ [][Next]_vars

\* ------------------------------------- the API client in the application
\* further operations the application invokes: getUserProfile() by
\* AuthContext.loadUserProfile, and the upload that passes FormData to request()
AppOps == {"loadUserProfile", "uploadAndEvaluateWithMethods"}

\* the API client with the AuthContext and the pages as callers, in a
\* browser with other tabs
NextApp ==
  \/ \E op \in CallerOps \cup AppOps : StartRequestOp(op)
  \/ ApiSteps
  \/ \E c \in Calls : FetchOkNoJson(c)
  \/ AuthCollect
  \/ CollectProfile
  \/ OtherTabLogout

SpecApp == Init /\ [][NextApp]_vars

\* -------------------------------------------- the session operations
\* the operations that read or write the session; getUserProfile() stands
\* for the calls whose 401 'expired' answer starts a refresh
SessionOps == {"login", "signup", "logout", "getUserProfile"}

NextSession ==
  \/ \E op \in SessionOps : StartRequestOp(op)
  \/ \E op \in ResetOps : StartReset(op)
  \/ RequestSteps
  \/ LoginResume
  \/ ResetResume
  \/ Collect

SpecSession == Init /\ [][NextSession]_vars

\* ------------------------------------------------------ the History page
\* the page is rendered for a logged-in user
InitHistory ==
  /\ storage \in [access : Tokens, refresh : RTokens]
  /\ token = storage.access
  /\ calls = [c \in Calls |-> IdleCall]
  /\ user = TRUE
  /\ page = NoPage
  /\ mapped = NoMapping
  /\ late = {}
  /\ hist = NoHistory
  /\ alt = NoVariantCall

\* the mount effect or handleRefresh calls loadEvaluationHistory()
\* (History.tsx lines 57 and 258)
LoadHistory ==
  /\ \E l \in Loads :
       /\ hist.load[l].pc = "idle"
       /\ \A k \in Loads : hist.load[k].pc = "idle" => l <= k
       /\ hist' = HistoryAfterCall(l)
  /\ UNCHANGED <<token, storage, calls, user, page, mapped, late, alt>>

\* part_009 lines 155-162: clearOldDownloadUrls() has settled, with a result
\* or an error; getEvaluations() is called
ClearSettled(l) ==
  /\ hist.load[l].pc = "clear"
  /\ hist' = [hist EXCEPT !.load[l].pc = "get"]
  /\ UNCHANGED <<token, storage, calls, user, page, mapped, late, alt>>

\* the backend reads the list for GET /user/evaluations
GetServed(l) ==
  /\ hist.load[l].pc = "get"
  /\ hist' = [hist EXCEPT !.load[l] = [pc |-> "served", snap |-> hist.version]]
  /\ UNCHANGED <<token, storage, calls, user, page, mapped, late, alt>>

\* part_009 lines 162-194: getEvaluations() returns its envelope; the list
\* read is stored, or the empty list after a failure; finally clears the flag
GetSettled(l) ==
  /\ hist.load[l].pc \in {"get", "served"}
  /\ \E success \in BOOLEAN :
       /\ success => hist.load[l].pc = "served"
       /\ hist' = [hist EXCEPT !.shown = IF success THEN hist.load[l].snap ELSE NoList,
                               !.flag = FALSE,
                               !.load[l] = IdleLoad]
  /\ UNCHANGED <<token, storage, calls, user, page, mapped, late, alt>>

\* History.tsx lines 169, 198, 224: handleDelete, handleBulkDelete or
\* handleUpdateFileName sends its request
Mutate ==
  /\ hist.mut = "idle"
  /\ hist.version < MaxVer
  /\ hist' = [hist EXCEPT !.mut = "sent"]
  /\ UNCHANGED <<token, storage, calls, user, page, mapped, late, alt>>

\* the backend applies the mutation
MutationApplied ==
  /\ hist.mut = "sent"
  /\ hist' = [hist EXCEPT !.mut = "applied", !.version = @ + 1]
  /\ UNCHANGED <<token, storage, calls, user, page, mapped, late, alt>>

\* History.tsx lines 170-176, 200-207, 228-235: the envelope arrives; after
\* a success the handler calls loadEvaluationHistory()
MutationSettled ==
  /\ hist.mut \in {"sent", "applied"}
  /\ \E success \in BOOLEAN :
       /\ success => hist.mut = "applied"
       /\ IF success
          THEN \E l \in Loads :
                 /\ hist.load[l].pc = "idle"
                 /\ \A k \in Loads : hist.load[k].pc = "idle" => l <= k
                 /\ hist' = [HistoryAfterCall(l) EXCEPT !.mut = "idle", !.seen = hist.version]
          ELSE hist' = [hist EXCEPT !.mut = "idle"]
  /\ UNCHANGED <<token, storage, calls, user, page, mapped, late, alt>>

NextHistory ==
  \/ LoadHistory
  \/ \E l \in Loads : ClearSettled(l) \/ GetServed(l) \/ GetSettled(l)
  \/ Mutate
  \/ MutationApplied
  \/ MutationSettled

SpecHistory == InitHistory /\ [][NextHistory]_vars

\* ------------------------------------------------- the two variants
\* the session operations, called on both ApiService variants in turn
VariantOps == {"login", "signup", "logout", "refreshToken"}

VariantEndpoint(op) ==
  CASE op = "login" -> "/auth/login"
    [] op = "signup" -> "/auth/register"
    [] op = "logout" -> "/auth/logout"
    [] OTHER -> "/auth/refresh"

\* the envelopes request() may return for an operation
VariantEnvelopes(op) ==
  {Success(body) : body \in OkBodies(VariantEndpoint(op))}
    \cup {Failure(Lookup(ErrorMap, InvalidCredentialsText)), Failure(NetworkMsg)}

\* api.ts lines 169-225: the session of the variant after op has handled
\* envelope e; login and signup store the access token only, logout removes
\* ladi_token only, refreshToken returns early without a stored refresh token
AltAfter(op, e) ==
  CASE op \in {"login", "signup"} ->
         IF e.success THEN [alt EXCEPT !.token = e.acc, !.access = e.acc] ELSE alt
    [] op = "logout" -> [alt EXCEPT !.token = Null, !.access = Null]
    [] OTHER ->
         IF alt.refresh # Null /\ e.success
         THEN [alt EXCEPT !.token = e.acc, !.access = e.acc] ELSE alt

\* part_010 lines 271-338: the session of this ApiService after op has
\* handled envelope e
SessionAfter(op, e) ==
  CASE op \in {"login", "signup"} -> SessionAfterLogin(e)
    [] op = "logout" -> SessionAfterLogout(e)
    [] OTHER -> SessionAfterRefresh(IF storage.refresh = Null
                                    THEN Failure(NoRefreshTokenMsg) ELSE e)

\* api.ts lines 655-657
AltIsAuthenticated == alt.token # Null

\* the same operation is called on both variants
VariantCall(op) ==
  /\ alt.op = "none"
  /\ alt' = [alt EXCEPT !.op = op]
  /\ UNCHANGED <<token, storage, calls, user, page, mapped, late, hist>>

\* the server answers both calls alike
VariantAnswer ==
  /\ alt.op # "none"
  /\ ~alt.answered
  /\ \E e \in VariantEnvelopes(alt.op) : alt' = [alt EXCEPT !.answered = TRUE, !.env = e]
  /\ UNCHANGED <<token, storage, calls, user, page, mapped, late, hist>>

\* the call record once both calls have returned
Returned2(a) ==
  IF a.here /\ a.there
  THEN [a EXCEPT !.op = "none", !.env = NoEnv, !.answered = FALSE,
                 !.here = FALSE, !.there = FALSE]
  ELSE a

\* the call on this ApiService returns
VariantReturnHere ==
  /\ alt.answered
  /\ ~alt.here
  /\ SetSession(SessionAfter(alt.op, alt.env))
  /\ alt' = Returned2([alt EXCEPT !.here = TRUE])
  /\ UNCHANGED <<calls, user, page, mapped, late, hist>>

\* the call on the ApiService of api.ts returns
VariantReturnThere ==
  /\ alt.answered
  /\ ~alt.there
  /\ alt' = Returned2([AltAfter(alt.op, alt.env) EXCEPT !.there = TRUE])
  /\ UNCHANGED <<token, storage, calls, user, page, mapped, late, hist>>

NextVariants ==
  \/ \E op \in VariantOps : VariantCall(op)
  \/ VariantAnswer
  \/ VariantReturnHere
  \/ VariantReturnThere

\* both variants are constructed over the same stored tokens
InitVariants ==
  /\ storage \in {[access |-> Null, refresh |-> Null]}
                 \cup [access : Tokens, refresh : RTokens]
  /\ token = storage.access                \* part_010 lines 85-89
  /\ alt = [NoVariantCall EXCEPT !.token = storage.access,     \* api.ts lines 81-84
                                !.access = storage.access, !.refresh = storage.refresh]
  /\ calls = [c \in Calls |-> IdleCall]
  /\ user = FALSE
  /\ page = NoPage
  /\ mapped = NoMapping
  /\ late = {}
  /\ hist = NoHistory

SpecVariants == InitVariants /\ [][NextVariants]_vars

\* ------------------------------------------------------ the error mapping
\* statuses and error strings of non-2xx answers
Statuses == {400, 401, 403, 404, 409, 418, 422, 429, 500, 502, 503, 504}
ServerErrors ==
  { NoText, InvalidFileText, MissingHeaderText, NotFoundText, TokenExpiredText,
    InvalidCredentialsText, InvalidRefreshText, EmailRequiredText,
    <<"User with this email already exists">> }

\* lines 224-232 and 236-267: request() throws the Error for a non-2xx answer
\* that is not an expiry, and its catch block builds the envelope
MapError ==
  /\ ~mapped.done
  /\ \E status \in Statuses, error \in ServerErrors :
       LET r == [status |-> status, error |-> error]
           call == [IdleCall EXCEPT !.op = "getUserProfile"]
       IN  /\ ~IsExpiry(r)
           /\ mapped' = [done |-> TRUE, status |-> status, error |-> error,
                      out |-> Caught(call, "Error", ErrorThrown(call, r))]
  /\ UNCHANGED <<token, storage, calls, user, page, late, hist, alt>>

\* the next answer
NextAnswer ==
  /\ mapped.done
  /\ mapped' = NoMapping
  /\ UNCHANGED <<token, storage, calls, user, page, late, hist, alt>>

NextMap == MapError \/ NextAnswer

SpecMap == Init /\ [][NextMap]_vars

\* ------------------------------------------------- the evaluation page alone
\* Dashboard.tsx lines 286-325: a successful upload has returned `categories`
ProcessFile ==
  /\ ~page.added
  /\ \E categories \in CategoryResults : page' = HistoryEntry(categories)
  /\ UNCHANGED <<token, storage, calls, user, mapped, late, hist, alt>>

\* the user starts a new evaluation
NewEvaluation ==
  /\ page.added
  /\ page' = NoPage
  /\ UNCHANGED <<token, storage, calls, user, mapped, late, hist, alt>>

NextScore == ProcessFile \/ NewEvaluation

SpecScore == Init /\ [][NextScore]_vars

\* ------------------------------------------------------------------ claims
Cleared == [access |-> Null, refresh |-> Null]

\* the caller's call returns in this step
UserReturns == calls[User].pc # "done" /\ calls'[User].pc = "done"

\* C1: when login() or signup() returns after a successful response that
\* carries an access token and a refresh token, both tokens are in durable
\* storage and isAuthenticated() is true
C1_LoginStoresTokens ==
  [][(/\ UserReturns
      /\ calls[User].op \in {"login", "signup"}
      /\ calls[User].env.success
      /\ calls[User].env.acc # Null
      /\ calls[User].env.rtk # Null)
     => /\ storage'.access = calls[User].env.acc
        /\ storage'.refresh = calls[User].env.rtk
        /\ IsAuthenticated']_vars

C1_Witness ==
  /\ calls[User].op \in {"login", "signup"}
  /\ calls[User].pc = "done"
  /\ calls[User].env.success
  /\ calls[User].env.rtk # Null
  /\ storage = [access |-> calls[User].env.acc, refresh |-> calls[User].env.rtk]
  /\ IsAuthenticated

\* a logout() call (awaited or not) returns in this step
LogoutReturns(c) ==
  /\ calls[c].op \in {"logout", "bgLogout"}
  /\ calls[c].pc = "reqDone"
  /\ calls[c].depth = 0
  /\ IF c = User THEN calls'[c].pc = "done"
     ELSE Cardinality(Pending(calls')) < Cardinality(Pending(calls))

\* C2: when logout() returns, whatever the outcome of the /auth/logout
\* request, the in-memory token is null, both tokens are absent from durable
\* storage and isAuthenticated() is false
C2_LogoutClears ==
  [][\A c \in Calls :
       LogoutReturns(c) => (token' = Null /\ storage' = Cleared /\ ~IsAuthenticated')]_vars

C2_Witness ==
  /\ calls[User].op = "logout"
  /\ calls[User].pc = "done"
  /\ calls[User].reqErr = TimeoutMsg
  /\ token = Null
  /\ storage = Cleared

\* C3: a request whose first response is 401 'expired' and whose refresh
\* succeeds is sent again exactly once, with an Authorization header that
\* carries the newly issued access token, and the envelope returned is built
\* from the replayed response
C3_ReplayOnceWithNewToken ==
  calls[User].ref = "ok" =>
    /\ calls[User].nsent = 2
    /\ calls[User].pc = "replay" =>
         /\ calls[User].issued # Null
         /\ calls[User].hdr = [present |-> TRUE, cred |-> calls[User].issued]
    /\ calls[User].pc \in {"reqDone", "done"} => calls[User].src = "replay"

C3_Witness ==
  /\ calls[User].op = "getUserProfile"
  /\ calls[User].pc = "done"
  /\ calls[User].ref = "ok"
  /\ calls[User].nsent = 2
  /\ calls[User].src = "replay"
  /\ calls[User].env.success
  /\ token = calls[User].issued

\* C4: when a call whose first response is 401 'expired' and whose refresh
\* fails returns, its envelope is a failure with the session-expired
\* message and isAuthenticated() is false
C4_SessionExpiredLogsOut ==
  [][(/\ UserReturns
      /\ calls'[User].op \in EnvelopeOps
      /\ calls'[User].ref = "failed")
     => /\ ~calls'[User].env.success
        /\ calls'[User].env.error = SessionExpiredMsg
        /\ ~IsAuthenticated']_vars

\* a {success, data, error} envelope: a failure carries an error text
IsEnvelope(e) == e.success <=> e.error = NoText

\* C5: no operation lets an exception escape; every operation completes by
\* returning a result envelope
C5_NeverThrows ==
  calls[User].pc = "done" => (~calls[User].threw /\ IsEnvelope(calls[User].env))

\* C5 (amended): the operations declared to return ApiResponse never throw
\* and return an envelope; downloadEvaluationPdf, publicEvaluationRedirect
\* and downloadTemplate report a failure by throwing an Error
C5_EnvelopeOpsNeverThrow ==
  calls[User].pc = "done" =>
    /\ calls[User].op \in EnvelopeOps => (~calls[User].threw /\ IsEnvelope(calls[User].env))
    /\ calls[User].threw =>
         /\ calls[User].op \in DownloadOps
         /\ calls[User].env.error # NoText
         /\ calls[User].op \in BlobOps => calls[User].env.error = DownloadFailedMsg

C5_Witness ==
  /\ calls[User].pc = "done"
  /\ calls[User].op = "getEvaluations"
  /\ ~calls[User].env.success
  /\ calls[User].env.error = NetworkMsg
  /\ ~calls[User].threw

\* C6: every fetch issued by request(), the replay included, has an armed
\* abort timer while it is in flight
C6_TimerArmed ==
  \A c \in Calls :
    (calls[c].pc \in {"fetch", "replay"} /\ IssuedByRequest(calls[c])) => calls[c].timer > 0

\* C7: getEvaluations() makes at most 3 attempts, makes none after a
\* successful one and returns that attempt's success envelope; after three
\* failed attempts it returns a failure envelope with the last error
C7_RetryLaw ==
  calls[User].op = "getEvaluations" =>
    /\ calls[User].attempt \in 1..MaxAttempts
    /\ calls[User].oks <= 1
    /\ calls[User].oks = 1 => calls[User].pc \in {"reqDone", "done"} /\ calls[User].env.success
    /\ calls[User].pc = "done" =>
         /\ calls[User].env.success <=> calls[User].oks = 1
         /\ ~calls[User].env.success =>
              /\ calls[User].attempt = MaxAttempts
              /\ calls[User].env.error = calls[User].reqErr

C7_Witness ==
  /\ calls[User].op = "getEvaluations"
  /\ calls[User].pc = "done"
  /\ calls[User].attempt = MaxAttempts
  /\ calls[User].env.success
  /\ calls[User].lastError # NoText

\* the backoff due before attempt n: 1s after the first attempt, 2s after the second
RECURSIVE BackoffDue(_)
BackoffDue(n) == IF n <= 1 THEN 0 ELSE BackoffUnitMs * (n - 1) + BackoffDue(n - 1)

\* C8: attempt n of getEvaluations() does not start before the backoff
\* waits of the earlier attempts (1s, then 2s) have elapsed
C8_Backoff ==
  calls[User].op = "getEvaluations" => calls[User].waited >= BackoffDue(calls[User].attempt)

\* C9: deleteEvaluation() and bulkDeleteEvaluations() send their request
\* once; the only second send is the replay after a 401 'expired' response
\* and a successful refresh
C9_DeleteNotRetried ==
  calls[User].op \in {"deleteEvaluation", "bulkDeleteEvaluations"} =>
    /\ calls[User].total <= 2
    /\ calls[User].total = 2 => calls[User].ref = "ok"
    /\ calls[User].attempt = 1

C9_Witness ==
  /\ calls[User].op \in {"deleteEvaluation", "bulkDeleteEvaluations"}
  /\ calls[User].pc = "done"
  /\ calls[User].env.error = TimeoutMsg
  /\ calls[User].total = 1

\* C10: a request in flight carries an Authorization header only if the
\* access token was non-null when it was sent, and then that token
C10_HeaderIsToken ==
  \A c \in Calls :
    (calls[c].pc \in {"fetch", "replay"} /\ calls[c].hdr.present)
      => (calls[c].sentTok # Null /\ calls[c].hdr.cred = calls[c].sentTok)

\* a replay in flight while a logout() started by an earlier call is in flight
C10_Witness ==
  /\ calls[User].pc = "replay"
  /\ calls[User].hdr = [present |-> TRUE, cred |-> token]
  /\ \E d \in Calls \ {User} : calls[d].op = "bgLogout" /\ calls[d].pc = "fetch"

\* no API call is in flight or being handled
AtRest == \A c \in Calls : calls[c].pc = "idle"

\* C11: the application never rests with the AuthContext user non-null while
\* the access token is absent from memory and from durable storage
C11_NotHalfAuthenticated ==
  AtRest => ~(user /\ token = Null /\ storage.access = Null)

\* the rounded mean of the six fixed category scores of a history entry
SixMean(entry) == RoundDiv(SumOver(entry.evaluations, CategoryIds), Cardinality(CategoryIds))

\* C19: the overallScore of the history entry added after an upload is the
\* mean of the six fixed category scores, rounded to the nearest integer
C19_OverallIsSixMean ==
  page.added => page.overallScore = SixMean(page)

\* refreshToken() called by frame c returns at once, having sent nothing
RefreshSkipped(c) == calls[c].pc = "fetch" /\ calls'[c].pc = "refDone"
\* refreshToken() called by frame c sends its request
RefreshSent(c) == calls[c].pc = "fetch" /\ calls'[c].depth = calls[c].depth + 1
\* refreshToken() resumes with the envelope of its request and returns
RefreshReturns(c) == calls[c].pc = "reqDone" /\ calls[c].depth > 0 /\ calls'[c].pc = "refDone"

\* C12: without a stored refresh token refreshToken() fails at once, sends no
\* request and changes no state; after a successful refresh request it
\* overwrites the access token in memory and in storage and leaves the
\* stored refresh token unchanged
C12_RefreshToken ==
  [][\A c \in Calls :
       /\ RefreshSkipped(c) =>
            /\ storage.refresh = Null
            /\ ~calls'[c].env.success
            /\ c = User => calls'[c].env = Failure(NoRefreshTokenMsg)
            /\ UNCHANGED <<token, storage>>
       /\ RefreshSent(c) => storage.refresh # Null
       /\ (RefreshReturns(c) /\ calls[c].env.success) =>
            /\ token' = calls[c].env.acc
            /\ storage' = [access |-> calls[c].env.acc, refresh |-> storage.refresh]
       /\ (RefreshReturns(c) /\ ~calls[c].env.success) => UNCHANGED <<token, storage>>]_vars

C12_Witness ==
  /\ calls[User].pc = "refDone"
  /\ calls[User].env.success
  /\ calls[User].issued = token
  /\ storage.access = token
  /\ storage.refresh # Null

\* C13: isAuthenticated() is true iff an access token is present; once the
\* token is gone from durable storage (another tab cleared it) it is false
C13_IsAuthenticated ==
  storage.access = Null => ~IsAuthenticated

\* the caller's call holds the envelope that request() built from the first
\* answer to the operation's own request
RequestAnswered ==
  /\ IssuedByRequest(calls[User])
  /\ calls[User].depth = 0
  /\ calls[User].pc \in {"reqDone", "done"}
  /\ calls[User].src = "first"

\* the first answer is a 401 without the expiry marker
Plain401(call) == call.resp.status = 401 /\ ~Includes(call.resp.error, "expired")

StatusMessage(status) ==
  CASE status = 400 -> <<"Invalid request. Please check your input.">>
    [] status = 401 -> <<"Authentication failed. Please log in again.">>
    [] status = 403 -> <<"Access denied. You do not have permission to perform this action.">>
    [] status = 404 -> <<"Resource not found.">>
    [] status = 409 -> <<"Conflict with existing data.">>
    [] status = 422 -> <<"Validation error. Please check your input.">>
    [] status = 429 -> <<"Too many requests. Please try again later.">>
    [] status = 500 -> <<"Server error. Please try again later or contact support.">>
    [] status \in {502, 503, 504} -> <<"Service temporarily unavailable. Please try again later.">>
    [] OTHER -> UnexpectedMsg

\* statuses whose generic message replaces whatever the server sent
BareStatuses == {403, 404, 429, 500, 502, 503, 504}

\* the error string of the answer has no entry in the lookup table
UnmappedError == mapped.done /\ ~HasKey(ErrorMap, mapped.error)

C16_ClassifiedMessages ==
  (RequestAnswered /\ calls[User].resp.status = 0)
    => /\ calls[User].reqErr \in {TimeoutMsg, NetworkMsg, CorsMsg, UnexpectedMsg}
       /\ calls[User].reqErr # calls[User].resp.error

\* C17: downloadEvaluationPdf() attempts the signed-URL fallback iff the
\* primary blob path fails, and when the fallback fails too (no signed URL,
\* or no PDF from it) it fails with exactly the download-failed message
C17_FallbackLaw ==
  (calls[User].op = "downloadEvaluationPdf" /\ calls[User].pc = "done")
    => /\ calls[User].total >= 1 <=> calls[User].primary = "failed"
       /\ (calls[User].primary = "failed" /\ calls[User].signed # "ok")
            => (calls[User].threw /\ calls[User].env = Failure(DownloadFailedMsg))

\* C18: the first request of every multipart upload is in flight under the
\* 300s abort timer, that of every JSON call under the 30s timer
C18_UploadTimeout ==
  \A c \in Calls :
    calls[c].pc = "fetch" =>
      IF calls[c].depth = 0 /\ calls[c].op \in UploadOps \cup FormDataOps
      THEN calls[c].timer = UploadTimeoutMs
      ELSE calls[c].timer = JsonTimeoutMs

\* C20: one call of the caller triggers at most one /auth/refresh request
\* and at most one /auth/logout request
C20_BoundedRequests ==
  /\ calls[User].nref <= 1
  /\ calls[User].nlogout <= 1

\* C21: a logout() that began before login() stored the tokens now held
\* leaves those tokens in memory and in storage when it completes
C21_LogoutKeepsLaterTokens ==
  [][(\E d \in late : calls[d].pc # "idle" /\ calls'[d].pc = "idle")
       => (token' = token /\ storage' = storage)]_vars

\* C22: a step of verifyResetToken() / resetPassword() leaves the stored
\* tokens as they are, every request the call sends carries the reset token
\* as bearer, and when the call returns this.token is what it was before
C22_ResetLeavesSession ==
  [][(calls[User].op \in ResetOps /\ calls'[User] # calls[User])
       => /\ storage' = storage
          /\ calls'[User].pc \in {"fetch", "replay"}
               => calls'[User].hdr = [present |-> TRUE, cred |-> ResetTok]
          /\ calls'[User].pc = "done" => token' = calls[User].orig]_vars

\* C23: whenever no operation is in flight, this.token equals the token
\* stored under ladi_token
C23_TokenIsStored == AtRest => token = storage.access

\* a /auth/refresh request of call c is in flight
Refreshing(c) == calls[c].pc = "fetch" /\ calls[c].depth > 0

\* C24: refreshes are not deduplicated: a request answered 401 'expired'
\* while a refresh token is stored sends its own /auth/refresh request, also
\* when the refresh of another call is in flight
C24_RefreshNotDeduplicated ==
  [][(/\ calls[User].pc = "fetch"
      /\ calls[User].depth = 0
      /\ IssuedByRequest(calls[User])
      /\ IsExpiry(calls'[User].resp)
      /\ storage.refresh # Null)
     => /\ Refreshing(User)'
        /\ Endpoint(calls'[User]) = "/auth/refresh"
        /\ \A d \in Calls \ {User} : Refreshing(d) => Refreshing(d)']_vars

\* two /auth/refresh requests are in flight at the same time
C24_Witness ==
  /\ Refreshing(User)
  /\ \E d \in Calls \ {User} : Refreshing(d)

\* the calls of loadEvaluationHistory() that are past the flag check
LoadsInFlight == {l \in Loads : hist.load[l].pc # "idle"}

\* C25: at most one history load is in flight, a call made meanwhile has
\* sent nothing, and the flag is set exactly while a load is in flight
C25_SingleLoad ==
  /\ Cardinality(LoadsInFlight) <= 1
  /\ hist.flag <=> LoadsInFlight # {}

C25_Witness ==
  /\ hist.flag
  /\ hist.last = "skipped"
  /\ Cardinality(LoadsInFlight) = 1

\* neither a load nor a mutation of the History page is in flight
HistoryAtRest == LoadsInFlight = {} /\ hist.mut = "idle"

\* C29: once the page is at rest after a successful mutation, the history
\* it holds was read after that mutation (or is the empty list of a failed
\* reload)
C29_ReloadAfterMutation ==
  (HistoryAtRest /\ hist.seen > 0)
    => (hist.shown = NoList \/ hist.shown >= hist.seen)

\* C26: downloadEvaluationPdf() completes without error only if the file it
\* saved came from a 2xx answer, of the primary path or of the signed URL
C26_SavedFrom2xx ==
  (calls[User].op = "downloadEvaluationPdf" /\ calls[User].pc = "done" /\ ~calls[User].threw)
    => (calls[User].primary = "ok" \/ calls[User].signed = "ok")

\* C27: the envelope request() builds from a 2xx answer is a success envelope
C27_SuccessFor2xx ==
  (RequestAnswered /\ calls[User].resp.status \in {200, 204})
    => calls[User].reqErr = NoText

\* C28: the error text of the failure envelope built for a non-2xx answer
\* is one application of the error mapping to the answer's error string and
\* status
C28_MappedOnce ==
  mapped.done => mapped.out = Failure(GetErrorMessage(mapped.error, mapped.status))

\* C30: between calls, the two ApiService variants hold the same token in
\* memory, the same stored access and refresh tokens, and isAuthenticated()
\* gives the same result on both
C30_VariantsAgree ==
  alt.op = "none"
    => /\ alt.token = token
       /\ alt.access = storage.access
       /\ alt.refresh = storage.refresh
       /\ AltIsAuthenticated <=> IsAuthenticated

====
